---------------------------- MODULE Spec2Model ----------------------------
(***************************************************************************)
(* HttpResponse::new of src/http/response.rs: the path resolver, the       *)
(* content classifier and the response assembler, over a small POSIX       *)
(* filesystem.  Strings, paths and buffers are sequences of bytes (0..255) *)
(* so that lengths, percent-coding and the wire format are computed, not   *)
(* assumed.                                                                *)
(***************************************************************************)
EXTENDS Integers, Sequences, FiniteSets, TLC

\* Longest request path, in `/`-separated segments.
MaxSegs == 2

\* Entries another process removes during one call of new.
MaxRemovals == 1

\* Symbolic links followed by one path resolution before it fails (ELOOP).
MaxSymlinks == 2

---------------------------------------------------------------------------
(* Byte strings *)

StartsWith(s, p) == Len(p) <= Len(s) /\ SubSeq(s, 1, Len(p)) = p

EndsWith(s, p) == Len(p) <= Len(s) /\ SubSeq(s, Len(s) - Len(p) + 1, Len(s)) = p

\* Does p occur in s at index i?
OccursAt(s, p, i) == i >= 1 /\ i + Len(p) - 1 <= Len(s) /\ SubSeq(s, i, i + Len(p) - 1) = p

\* The indices at which p occurs in s.
Occurrences(s, p) == {i \in 1..Len(s) : OccursAt(s, p, i)}

\* Index of the first occurrence of p in s; 0 when there is none.
Find(s, p) ==
    LET at == Occurrences(s, p)
    IN  IF at = {} THEN 0 ELSE CHOOSE i \in at : \A j \in at : i <= j

\* `{}` on a usize: decimal digits, no padding.
RECURSIVE ToDec(_)
ToDec(n) == IF n < 10 THEN <<48 + n>> ELSE ToDec(n \div 10) \o <<48 + (n % 10)>>

---------------------------------------------------------------------------
(* url_escape::decode: percent-decode, then UTF-8 lossy *)

IsHex(b) == b \in 48..57 \/ b \in 65..70 \/ b \in 97..102

HexVal(b) == IF b \in 48..57 THEN b - 48 ELSE IF b \in 65..70 THEN b - 55 ELSE b - 87

\* A `%` not followed by two hex digits is passed through as it is.
RECURSIVE PercentDecodeFrom(_, _)
PercentDecodeFrom(s, i) ==
    IF i > Len(s) THEN <<>>
    ELSE IF s[i] = 37 /\ i + 2 <= Len(s) /\ IsHex(s[i + 1]) /\ IsHex(s[i + 2])
         THEN <<16 * HexVal(s[i + 1]) + HexVal(s[i + 2])>> \o PercentDecodeFrom(s, i + 3)
         ELSE <<s[i]>> \o PercentDecodeFrom(s, i + 1)

IsCont(s, j) == j <= Len(s) /\ s[j] \in 128..191

\* The range the second byte of a 3- or 4-byte sequence must lie in.
SecondOk(s, i) ==
    /\ i + 1 <= Len(s)
    /\ LET b == s[i]
           c == s[i + 1]
       IN  \/ b = 224 /\ c \in 160..191
           \/ b \in 225..236 /\ c \in 128..191
           \/ b = 237 /\ c \in 128..159
           \/ b \in 238..239 /\ c \in 128..191
           \/ b = 240 /\ c \in 144..191
           \/ b \in 241..243 /\ c \in 128..191
           \/ b = 244 /\ c \in 128..143

\* The chunk of s that starts at i: a whole character (valid) or the longest
\* invalid prefix, with the number of bytes it takes.
Utf8Chunk(s, i) ==
    LET b == s[i] IN
    IF b < 128 THEN [valid |-> TRUE, n |-> 1]
    ELSE IF b \in 194..223
         THEN IF IsCont(s, i + 1) THEN [valid |-> TRUE, n |-> 2]
              ELSE [valid |-> FALSE, n |-> 1]
    ELSE IF b \in 224..239
         THEN IF ~SecondOk(s, i) THEN [valid |-> FALSE, n |-> 1]
              ELSE IF ~IsCont(s, i + 2) THEN [valid |-> FALSE, n |-> 2]
              ELSE [valid |-> TRUE, n |-> 3]
    ELSE IF b \in 240..244
         THEN IF ~SecondOk(s, i) THEN [valid |-> FALSE, n |-> 1]
              ELSE IF ~IsCont(s, i + 2) THEN [valid |-> FALSE, n |-> 2]
              ELSE IF ~IsCont(s, i + 3) THEN [valid |-> FALSE, n |-> 3]
              ELSE [valid |-> TRUE, n |-> 4]
    ELSE [valid |-> FALSE, n |-> 1]

RECURSIVE IsUtf8From(_, _)
IsUtf8From(s, i) ==
    i > Len(s) \/ (Utf8Chunk(s, i).valid /\ IsUtf8From(s, i + Utf8Chunk(s, i).n))

\* OsStr::to_str is Some exactly for these.
IsUtf8(s) == IsUtf8From(s, 1)

\* Every invalid chunk becomes U+FFFD (EF BF BD).
RECURSIVE Utf8LossyFrom(_, _)
Utf8LossyFrom(s, i) ==
    IF i > Len(s) THEN <<>>
    ELSE LET c == Utf8Chunk(s, i) IN
         (IF c.valid THEN SubSeq(s, i, i + c.n - 1) ELSE <<239, 191, 189>>)
             \o Utf8LossyFrom(s, i + c.n)

decode(s) == Utf8LossyFrom(PercentDecodeFrom(s, 1), 1)

---------------------------------------------------------------------------
(* url_escape::encode with NON_ALPHANUMERIC *)

IsAlnum(b) == b \in 48..57 \/ b \in 65..90 \/ b \in 97..122

HexDigit(n) == IF n < 10 THEN 48 + n ELSE 55 + n

RECURSIVE encode(_)
encode(s) ==
    IF s = <<>> THEN <<>>
    ELSE (IF IsAlnum(Head(s)) THEN <<Head(s)>>
          ELSE <<37, HexDigit(Head(s) \div 16), HexDigit(Head(s) % 16)>>)
         \o encode(Tail(s))

---------------------------------------------------------------------------
(* Paths *)

\* Mutant: strip_prefix('/'), which takes one `/` only.
strip_one(s) == IF s # <<>> /\ Head(s) = 47 THEN Tail(s) ELSE s

\* str::trim_start_matches('/'): every leading `/` goes, not only the first.
RECURSIVE trim_start_matches(_)
trim_start_matches(s) ==
    IF s # <<>> /\ Head(s) = 47 THEN trim_start_matches(Tail(s)) ELSE s

\* Path::join: an absolute argument replaces the base.
join(base, p) ==
    IF p # <<>> /\ Head(p) = 47 THEN p
    ELSE IF base # <<>> /\ base[Len(base)] = 47 THEN base \o p
    ELSE base \o <<47>> \o p

\* The names between the `/`s of a path, empty ones dropped.
RECURSIVE SplitFrom(_, _, _)
SplitFrom(s, i, cur) ==
    IF i > Len(s) THEN (IF cur = <<>> THEN <<>> ELSE <<cur>>)
    ELSE IF s[i] = 47
         THEN (IF cur = <<>> THEN <<>> ELSE <<cur>>) \o SplitFrom(s, i + 1, <<>>)
         ELSE SplitFrom(s, i + 1, Append(cur, s[i]))

Dot == <<46>>

DotDot == <<46, 46>>

\* What path resolution walks: a trailing `/` asks for a directory, as a
\* trailing `.` does.
Components(s) ==
    SplitFrom(s, 1, <<>>) \o (IF s # <<>> /\ s[Len(s)] = 47 THEN <<Dot>> ELSE <<>>)

\* The bytes of a canonical path, given as its names from `/` down.
RECURSIVE PathBytes(_)
PathBytes(names) ==
    IF names = <<>> THEN <<47>>
    ELSE IF Len(names) = 1 THEN <<47>> \o names[1]
    ELSE PathBytes(SubSeq(names, 1, Len(names) - 1)) \o <<47>> \o names[Len(names)]

\* Path::parent works on the text: it drops the last component, with the
\* separators and `.`s around it, and resolves nothing.  <<>> stands for None.
RECURSIVE TrimRight(_)
TrimRight(s) ==
    IF Len(s) > 1 /\ s[Len(s)] = 47 THEN TrimRight(SubSeq(s, 1, Len(s) - 1))
    ELSE IF Len(s) > 2 /\ EndsWith(s, <<47, 46>>) THEN TrimRight(SubSeq(s, 1, Len(s) - 2))
    ELSE s

RECURSIVE DropName(_)
DropName(s) ==
    IF s = <<>> \/ s[Len(s)] = 47 THEN s ELSE DropName(SubSeq(s, 1, Len(s) - 1))

parent(s) == IF TrimRight(s) = <<47>> THEN <<>> ELSE TrimRight(DropName(TrimRight(s)))

\* to_unix_style: every `\` becomes `/`.
to_unix_style(s) == [i \in 1..Len(s) |-> IF s[i] = 92 THEN 47 ELSE s[i]]

IsPrefix(p, q) == Len(p) <= Len(q) /\ SubSeq(q, 1, Len(p)) = p

---------------------------------------------------------------------------
(* The filesystem: canonical path (its names from `/` down) -> node *)

Dir == [kind |-> "dir", data |-> <<>>]

File(content) == [kind |-> "file", data |-> content]

Symlink(target) == [kind |-> "symlink", data |-> target]

\* A FIFO, socket or device: it exists and is neither file nor directory.
Special == [kind |-> "special", data |-> <<>>]

nR == <<114>>            \* r : the working directory is /r
nA == <<97>>             \* a : /r/a and /r/d/a lie inside it, /a outside
nD == <<100>>            \* d
nL == <<108>>            \* l
nLi == <<60, 108, 105, 62>>    \* a file named `<li>`
nFF == <<255>>           \* a file whose name is the byte FF: not UTF-8

\* std::env::current_dir(): the kernel reports it resolved.
RootCwd == PathBytes(<<nR>>)

PNG == <<137, 80, 78, 71, 13, 10, 26, 10, 0>>

\* File contents: empty, a PNG signature, text holding the header separator.
Contents == {<<>>, PNG, <<104, 13, 10, 13, 10, 105>>}

MkFs(entries) ==
    [p \in {e[1] : e \in entries} |-> (CHOOSE e \in entries : e[1] = p)[2]]

\* /, the working directory /r, and a file outside it: /a, holding "top".
BaseEntries == {<< <<>>, Dir >>, << <<nR>>, Dir >>, << <<nA>>, File(<<116, 111, 112>>) >>}

AOpts == {{}} \cup {{<< <<nR, nA>>, File(c) >>} : c \in Contents}
              \cup {{<< <<nR, nA>>, Special >>}}

DOpts == {{},
          {<< <<nR, nD>>, Dir >>, << <<nR, nD, nA>>, File(<<104, 105>>) >>},
          {<< <<nR, nD>>, Dir >>, << <<nR, nD, nA>>, File(<<104, 105>>) >>,
           << <<nR, nD, nLi>>, File(<<>>) >>},
          {<< <<nR, nD>>, Dir >>, << <<nR, nD, nFF>>, File(<<>>) >>}}

LOpts == {{}} \cup {{<< <<nR, nL>>, Symlink(t) >>} :
                      t \in {DotDot, PathBytes(<<nA>>), nD, nL}}

Filesystems == {MkFs(BaseEntries \cup a \cup d \cup l) : a \in AOpts, d \in DOpts, l \in LOpts}

Children(f, dir) == {p \in DOMAIN f : Len(p) = Len(dir) + 1 /\ IsPrefix(dir, p)}

Failed(e) == [ok |-> FALSE, err |-> e, path |-> <<>>]

\* Kernel path resolution from directory cur over the components rest,
\* following every symbolic link, the last one too.
RECURSIVE Walk(_, _, _, _)
Walk(f, cur, rest, budget) ==
    IF rest = <<>> THEN [ok |-> TRUE, err |-> "", path |-> cur]
    ELSE IF f[cur].kind # "dir" THEN Failed("NotADirectory")
    ELSE IF Head(rest) = Dot THEN Walk(f, cur, Tail(rest), budget)
    ELSE IF Head(rest) = DotDot
         THEN Walk(f, IF cur = <<>> THEN cur ELSE SubSeq(cur, 1, Len(cur) - 1),
                   Tail(rest), budget)
    ELSE LET child == Append(cur, Head(rest)) IN
         IF child \notin DOMAIN f THEN Failed("NotFound")
         ELSE IF f[child].kind = "symlink"
              THEN IF budget = 0 THEN Failed("FilesystemLoop")
                   ELSE Walk(f, IF Head(f[child].data) = 47 THEN <<>> ELSE cur,
                             Components(f[child].data) \o Tail(rest), budget - 1)
         ELSE Walk(f, child, Tail(rest), budget)

\* Path::canonicalize (realpath) of an absolute path.
canonicalize(f, p) == Walk(f, <<>>, Components(p), MaxSymlinks)

\* Path::exists, is_file, is_dir: stat, which resolves the path the same way.
exists(f, p) == canonicalize(f, p).ok

is_file(f, p) == canonicalize(f, p).ok /\ f[canonicalize(f, p).path].kind = "file"

is_dir(f, p) == canonicalize(f, p).ok /\ f[canonicalize(f, p).path].kind = "dir"

---------------------------------------------------------------------------
(* The response *)

\* Display of Version::V1_1: "HTTP/1.1"
V1_1 == <<72, 84, 84, 80, 47, 49, 46, 49>>

\* Display of ResponseStatus: "200 OK", "404 NOT FOUND"
StatusText(status) ==
    IF status = "OK" THEN <<50, 48, 48, 32, 79, 75>>
    ELSE <<52, 48, 52, 32, 78, 79, 84, 32, 70, 79, 85, 78, 68>>

\* Display of AcceptRanges: "accept-ranges: bytes", "accept-ranges: none"
AcceptRangesText(accept_ranges) ==
    IF accept_ranges = "Bytes"
    THEN <<97, 99, 99, 101, 112, 116, 45, 114, 97, 110, 103, 101, 115, 58, 32, 98, 121, 116, 101, 115>>
    ELSE <<97, 99, 99, 101, 112, 116, 45, 114, 97, 110, 103, 101, 115, 58, 32, 110, 111, 110, 101>>

\* "content-type: "
ContentTypeLabel == <<99, 111, 110, 116, 101, 110, 116, 45, 116, 121, 112, 101, 58, 32>>

\* "content-length: "
ContentLengthLabel == <<99, 111, 110, 116, 101, 110, 116, 45, 108, 101, 110, 103, 116, 104, 58, 32>>

LF == <<10>>

CRLFCRLF == <<13, 10, 13, 10>>

TextHtml == <<116, 101, 120, 116, 47, 104, 116, 109, 108>>

TextPlain == <<116, 101, 120, 116, 47, 112, 108, 97, 105, 110>>

\* Mutant: CRLF after every header line, as HTTP/1.1 asks.
HeaderCRLF(status, accept_ranges, content_type, content_length) ==
    V1_1 \o <<32>> \o StatusText(status) \o <<13, 10>>
         \o AcceptRangesText(accept_ranges) \o <<13, 10>>
         \o ContentTypeLabel \o content_type \o <<13, 10>>
         \o ContentLengthLabel \o ToDec(content_length) \o CRLFCRLF

\* format!("{} {}\n{}\ncontent-type: {}\ncontent-length: {}\r\n\r\n", ...)
Header(status, accept_ranges, content_type, content_length) ==
    V1_1 \o <<32>> \o StatusText(status) \o LF
         \o AcceptRangesText(accept_ranges) \o LF
         \o ContentTypeLabel \o content_type \o LF
         \o ContentLengthLabel \o ToDec(content_length) \o CRLFCRLF

\* infer::get_from_path: the MIME type of the first signature the leading
\* bytes match (png, jpeg, gif here), <<>> for none.
Sniff(content) ==
    IF StartsWith(content, <<137, 80, 78, 71>>)
    THEN <<105, 109, 97, 103, 101, 47, 112, 110, 103>>
    ELSE IF StartsWith(content, <<255, 216, 255>>)
    THEN <<105, 109, 97, 103, 101, 47, 106, 112, 101, 103>>
    ELSE IF StartsWith(content, <<71, 73, 70>>)
    THEN <<105, 109, 97, 103, 101, 47, 103, 105, 102>>
    ELSE <<>>

\* Mutant: the file read as text (read_to_string, lossy).
read_lossy(content) == Utf8LossyFrom(content, 1)

\* File::open and read_to_end: the whole file, as bytes.
read_to_end(content) == content

\* What new holds before it looks at the target, and returns when no branch
\* is taken.
Untouched(cp) ==
    [kind |-> "Ok", status |-> "NotFound", content_length |-> 0,
     content_type |-> TextHtml, accept_ranges |-> "None",
     response_body |-> <<>>, current_path |-> cp]

Err(e, cp) == [Untouched(cp) EXCEPT !.kind = "Err", !.status = e]

Panic(cp) == [Untouched(cp) EXCEPT !.kind = "Panic"]

NoResult == [Untouched(<<>>) EXCEPT !.kind = "None"]

FileResponse(data, cp) ==
    LET content_type == IF Sniff(data) # <<>> THEN Sniff(data) ELSE TextPlain
        content == read_to_end(data)
        content_length == Len(content)
    IN  [kind |-> "Ok", status |-> "OK", content_length |-> content_length,
         content_type |-> content_type, accept_ranges |-> "Bytes",
         response_body |-> Header("OK", "Bytes", content_type, content_length) \o content,
         current_path |-> cp]

\* One <li> of the listing: the href is the encoded "{current_path}/{name}",
\* the text is the raw name.
ListItem(cp, name) ==
    <<60, 108, 105, 62, 60, 97, 32, 104, 114, 101, 102, 61, 34>>     \* <li><a href="
        \o encode(cp \o <<47>> \o name)
        \o <<34, 62>>                                                \* ">
        \o name
        \o <<60, 47, 97, 62, 60, 47, 108, 105, 62>>                  \* </a></li>

RECURSIVE ListItems(_, _)
ListItems(cp, names) ==
    IF names = <<>> THEN <<>> ELSE ListItem(cp, Head(names)) \o ListItems(cp, Tail(names))

\* "">Up One Level</a></p>"
UpOneLevelTail ==
    <<34, 62, 85, 112, 32, 79, 110, 101, 32, 76, 101, 118, 101, 108, 60, 47, 97, 62, 60, 47, 112, 62>>

UpOneLevel(np) ==
    <<60, 112, 62, 60, 97, 32, 104, 114, 101, 102, 61, 34>>          \* <p><a href="
        \o encode(IF parent(np) = <<>> THEN RootCwd ELSE parent(np))
        \o UpOneLevelTail

Listing(np, cp, atRoot, names) ==
    \* <html><head><meta charset="utf-8"/></head><body>
    <<60, 104, 116, 109, 108, 62, 60, 104, 101, 97, 100, 62, 60, 109, 101, 116, 97, 32,
      99, 104, 97, 114, 115, 101, 116, 61, 34, 117, 116, 102, 45, 56, 34, 47, 62, 60, 47,
      104, 101, 97, 100, 62, 60, 98, 111, 100, 121, 62>>
    \* <h1>Directory Listing</h1>
    \o <<60, 104, 49, 62, 68, 105, 114, 101, 99, 116, 111, 114, 121, 32, 76, 105, 115, 116,
         105, 110, 103, 60, 47, 104, 49, 62>>
    \* <p>Current directory:
    \o <<60, 112, 62, 67, 117, 114, 114, 101, 110, 116, 32, 100, 105, 114, 101, 99, 116,
         111, 114, 121, 58, 32>>
    \o to_unix_style(np)
    \o <<60, 47, 112, 62>>                                           \* </p>
    \o (IF atRoot THEN <<>> ELSE UpOneLevel(np))
    \o <<60, 117, 108, 62>>                                          \* <ul>
    \o ListItems(cp, names)
    \* </ul></body></html>
    \o <<60, 47, 117, 108, 62, 60, 47, 98, 111, 100, 121, 62, 60, 47, 104, 116, 109, 108, 62>>

\* Mutant: line 105 before line 104, the length taken before the document is
\* closed.
DirResponseEarlyLen(np, cp, atRoot, names) ==
    LET listing == Listing(np, cp, atRoot, names)
        content_length == Len(listing) - 19
    IN  [kind |-> "Ok", status |-> "OK", content_length |-> content_length,
         content_type |-> TextHtml, accept_ranges |-> "None",
         response_body |-> Header("OK", "None", TextHtml, content_length) \o listing,
         current_path |-> cp]

DirResponse(np, cp, atRoot, names) ==
    LET listing == Listing(np, cp, atRoot, names)
        content_length == Len(listing)
    IN  [kind |-> "Ok", status |-> "OK", content_length |-> content_length,
         content_type |-> TextHtml, accept_ranges |-> "None",
         response_body |-> Header("OK", "None", TextHtml, content_length) \o listing,
         current_path |-> cp]

\* The string literal of lines 116 to 121, its line breaks and indentation
\* included.
four_o_four ==
    <<10, 32, 32, 32, 32, 32, 32, 32, 32, 32, 32, 32, 32, 32, 32, 32, 32,
      60, 104, 116, 109, 108, 62,
      10, 32, 32, 32, 32, 32, 32, 32, 32, 32, 32, 32, 32, 32, 32, 32, 32,
      60, 98, 111, 100, 121, 62,
      10, 32, 32, 32, 32, 32, 32, 32, 32, 32, 32, 32, 32, 32, 32, 32, 32,
      60, 104, 49, 62, 52, 48, 52, 32, 78, 79, 84, 32, 70, 79, 85, 78, 68, 60, 47, 104, 49, 62,
      10, 32, 32, 32, 32, 32, 32, 32, 32, 32, 32, 32, 32, 32, 32, 32, 32,
      60, 47, 98, 111, 100, 121, 62,
      10, 32, 32, 32, 32, 32, 32, 32, 32, 32, 32, 32, 32, 32, 32, 32, 32,
      60, 47, 104, 116, 109, 108, 62>>

NotFoundResponse(cp) ==
    LET content_length == Len(four_o_four)
    IN  [kind |-> "Ok", status |-> "NotFound", content_length |-> content_length,
         content_type |-> TextHtml, accept_ranges |-> "None",
         response_body |-> Header("NotFound", "None", TextHtml, content_length) \o four_o_four,
         current_path |-> cp]

---------------------------------------------------------------------------
(* HttpResponse::new, one filesystem access per step *)

VARIABLES
    fs,                  \* the filesystem
    request,             \* request.resource.path
    pc,                  \* where new stands
    current_path,        \* line 27
    new_path,            \* line 31
    new_path_canonical,  \* line 32
    result,              \* what new returned
    served,              \* the canonical path of the file read or directory listed
    removals,            \* entries another process removed during this call
    removedInWindow      \* one of them after line 32 resolved the path and before line 40 tested it

vars == <<fs, request, pc, current_path, new_path, new_path_canonical, result, served,
          removals, removedInWindow>>

\* Request path segments: empty (a doubled `/`), a, d, l, `..`, `%2e%2e`,
\* and `%zz%ff`: a malformed escape, then a byte that is no UTF-8.
Segments ==
    {<<>>, nA, nD, nL, DotDot,
     <<37, 50, 101, 37, 50, 101>>, <<37, 122, 122, 37, 102, 102>>}

RECURSIVE RequestsOf(_)
RequestsOf(n) ==
    IF n = 0 THEN {<<>>}
    ELSE {r \o <<47>> \o g : r \in RequestsOf(n - 1), g \in Segments}

Requests == UNION {RequestsOf(n) : n \in 0..MaxSegs}

NoPath == [ok |-> FALSE, err |-> "", path |-> <<>>]

rootcwd_canonical == canonicalize(fs, RootCwd).path

Init ==
    /\ fs \in Filesystems
    /\ request = <<>>
    /\ pc = "idle"
    /\ current_path = <<>>
    /\ new_path = <<>>
    /\ new_path_canonical = NoPath
    /\ result = NoResult
    /\ served = NoPath
    /\ removals = 0
    /\ removedInWindow = FALSE

\* The caller hands new a request.
Receive(req) ==
    /\ pc = "idle"
    /\ request' = req
    /\ pc' = "resolve"
    /\ current_path' = <<>>
    /\ new_path' = <<>>
    /\ new_path_canonical' = NoPath
    /\ result' = NoResult
    /\ served' = NoPath
    /\ removals' = 0
    /\ removedInWindow' = FALSE
    /\ UNCHANGED fs

\* Mutant: the error of canonicalize dropped (unwrap_or_default).
NeverPropagates(c) == FALSE

\* `?` on canonicalize: an io error ends new.
Propagates(c) == ~c.ok

\* Lines 26 to 36.
Resolve ==
    /\ pc = "resolve"
    /\ LET cp == decode(request)
           trimmed_path == trim_start_matches(cp)
           np == join(RootCwd, trimmed_path)
           c == canonicalize(fs, np)
       IN  /\ current_path' = cp
           /\ new_path' = np
           /\ new_path_canonical' = c
           /\ IF Propagates(c)
              THEN /\ result' = Err(c.err, cp)
                   /\ pc' = "done"
              ELSE /\ result' = result
                   /\ pc' = "exists"
    /\ UNCHANGED <<fs, request, served, removals, removedInWindow>>

\* Line 40; when the test fails, lines 131 to 139.
Exists ==
    /\ pc = "exists"
    /\ IF exists(fs, new_path)
       THEN /\ pc' = "is_file"
            /\ result' = result
       ELSE /\ pc' = "done"
            /\ result' = Untouched(current_path)
    /\ UNCHANGED <<fs, request, current_path, new_path, new_path_canonical, served, removals, removedInWindow>>

\* Line 41.
IsFile ==
    /\ pc = "is_file"
    /\ pc' = IF is_file(fs, new_path) THEN "file" ELSE "is_dir"
    /\ UNCHANGED <<fs, request, current_path, new_path, new_path_canonical, result, served,
                   removals, removedInWindow>>

\* Line 64; when the test fails, lines 115 to 128.
IsDir ==
    /\ pc = "is_dir"
    /\ IF is_dir(fs, new_path)
       THEN /\ pc' = "dir"
            /\ result' = result
       ELSE /\ pc' = "done"
            /\ result' = NotFoundResponse(current_path)
    /\ UNCHANGED <<fs, request, current_path, new_path, new_path_canonical, served, removals, removedInWindow>>

\* Lines 42 to 63: sniff, open, read, assemble.
BuildFile ==
    /\ pc = "file"
    /\ pc' = "done"
    /\ LET t == canonicalize(fs, new_path) IN
       IF t.ok /\ fs[t.path].kind = "file"
       THEN /\ result' = FileResponse(fs[t.path].data, current_path)
            /\ served' = t
       ELSE /\ result' = Err(IF t.ok THEN "Other" ELSE t.err, current_path)
            /\ served' = served
    /\ UNCHANGED <<fs, request, current_path, new_path, new_path_canonical, removals,
                   removedInWindow>>

\* The orders read_dir may yield the names of a set in: any.
Orders(S) ==
    {o \in [1..Cardinality(S) -> S] : \A i, j \in 1..Cardinality(S) : o[i] = o[j] => i = j}

\* Lines 65 to 113: list, assemble.  A name that is no UTF-8 panics at line 92.
BuildDir ==
    /\ pc = "dir"
    /\ pc' = "done"
    /\ LET t == canonicalize(fs, new_path) IN
       IF t.ok /\ fs[t.path].kind = "dir"
       THEN /\ served' = t
            /\ \E names \in Orders({p[Len(p)] : p \in Children(fs, t.path)}) :
                 result' = IF \E i \in 1..Len(names) : ~IsUtf8(names[i])
                           THEN Panic(current_path)
                           ELSE DirResponse(new_path, current_path,
                                            rootcwd_canonical = new_path_canonical.path,
                                            names)
       ELSE /\ result' = Err(IF t.ok THEN "NotADirectory" ELSE t.err, current_path)
            /\ served' = served
    /\ UNCHANGED <<fs, request, current_path, new_path, new_path_canonical, removals,
                   removedInWindow>>

Next ==
    \/ \E req \in Requests : Receive(req)
    \/ Resolve
    \/ Exists
    \/ IsFile
    \/ IsDir
    \/ BuildFile
    \/ BuildDir

Spec == Init /\ [][Next]_vars

\* Another process unlinks a file, a link or an empty directory while new
\* runs.  (A removal before new first looks at the filesystem is a run from a
\* smaller filesystem.)
Remove(p) ==
    /\ pc \notin {"idle", "resolve", "done"}
    /\ removals < MaxRemovals
    /\ p \in DOMAIN fs
    /\ p \notin {<<>>, <<nR>>}
    /\ Children(fs, p) = {}
    /\ fs' = [q \in DOMAIN fs \ {p} |-> fs[q]]
    /\ removals' = removals + 1
    /\ removedInWindow' = (removedInWindow \/ pc = "exists")
    /\ UNCHANGED <<request, pc, current_path, new_path, new_path_canonical, result, served>>

NextRace == Next \/ \E p \in DOMAIN fs : Remove(p)

SpecRace == Init /\ [][NextRace]_vars

---------------------------------------------------------------------------
(* Reading a returned buffer back, as a client does *)

\* Where the first \r\n\r\n of buf starts; 0 when buf has none.
SeparatorAt(buf) == Find(buf, CRLFCRLF)

\* The bytes before the first \r\n\r\n.
HeaderPart(buf) == SubSeq(buf, 1, SeparatorAt(buf) - 1)

\* The bytes after the first \r\n\r\n; none when buf has no separator.
BodyPart(buf) ==
    LET at == SeparatorAt(buf)
    IN  IF at = 0 THEN <<>> ELSE SubSeq(buf, at + 4, Len(buf))

\* The lines of s, split at every \n.
RECURSIVE LinesFrom(_, _, _)
LinesFrom(s, i, cur) ==
    IF i > Len(s) THEN <<cur>>
    ELSE IF s[i] = 10 THEN <<cur>> \o LinesFrom(s, i + 1, <<>>)
    ELSE LinesFrom(s, i + 1, Append(cur, s[i]))

Lines(s) == LinesFrom(s, 1, <<>>)

\* The bytes of buf before its first \n.
FirstLine(buf) ==
    LET at == Find(buf, LF)
    IN  IF at = 0 THEN buf ELSE SubSeq(buf, 1, at - 1)

IsDigits(s) == s # <<>> /\ \A i \in 1..Len(s) : s[i] \in 48..57

RECURSIVE FromDec(_)
FromDec(s) ==
    IF s = <<>> THEN 0 ELSE 10 * FromDec(SubSeq(s, 1, Len(s) - 1)) + (s[Len(s)] - 48)

\* The number on the content-length line of buf's header; -1 when the header
\* has no such line or it holds no number.
DeclaredLength(buf) ==
    LET ls == Lines(HeaderPart(buf))
        at == {i \in 1..Len(ls) : StartsWith(ls[i], ContentLengthLabel)}
    IN  IF SeparatorAt(buf) = 0 \/ at = {} THEN -1
        ELSE LET l == ls[CHOOSE i \in at : TRUE]
                 v == SubSeq(l, Len(ContentLengthLabel) + 1, Len(l))
             IN  IF IsDigits(v) THEN FromDec(v) ELSE -1

\* Is line the status line of status: a version with no blank in it, a blank,
\* the status code and reason?
IsStatusLine(line, status) ==
    LET st == StatusText(status)
    IN  /\ EndsWith(line, <<32>> \o st)
        /\ Len(line) > Len(st) + 1
        /\ \A i \in 1..(Len(line) - Len(st) - 1) : line[i] # 32

Returned == pc = "done" /\ result.kind = "Ok"

\* What the request path resolves to when new returns.
Target == canonicalize(fs, new_path)

TargetKind == IF Target.ok THEN fs[Target.path].kind ELSE "absent"

InsideRoot(path) == IsPrefix(rootcwd_canonical, path)

---------------------------------------------------------------------------
(* The claims *)

\* C1: the canonical path of every file new reads and of every directory it
\* lists is the canonical served root or lies below it.
C1_ServedInsideRoot == served.ok => InsideRoot(served.path)

\* C2: when the resolved path has no filesystem entry, new returns the 404
\* response: status NotFound, text/html, the fixed document as the body and
\* its byte length as content-length.
C2_AbsentGives404 ==
    pc = "done" /\ TargetKind = "absent" =>
        /\ Returned
        /\ result.status = "NotFound"
        /\ result.content_type = TextHtml
        /\ BodyPart(result.response_body) = four_o_four
        /\ result.content_length = Len(four_o_four)
        /\ DeclaredLength(result.response_body) = Len(four_o_four)

\* C3: in every response new returns, the content_length field and the number
\* on the content-length header line both equal the number of bytes after the
\* first \r\n\r\n of response_body.
C3_ContentLengthIsBodyLength ==
    Returned =>
        LET n == Len(BodyPart(result.response_body))
        IN  /\ result.content_length = n
            /\ DeclaredLength(result.response_body) = n

\* C3 witness: a returned file whose own bytes hold \r\n\r\n too, so that the
\* separator is the first of several.
C3_Witness ==
    /\ Returned
    /\ result.accept_ranges = "Bytes"
    /\ Cardinality(Occurrences(result.response_body, CRLFCRLF)) > 1

C5_ListingItemsAndUpLink ==
    Returned /\ TargetKind = "dir" =>
        LET body == BodyPart(result.response_body)
        IN  /\ Cardinality(Occurrences(body, <<60, 108, 105, 62>>))
                   = Cardinality(Children(fs, Target.path))
            /\ Find(body, UpOneLevelTail) # 0 <=> Target.path # rootcwd_canonical

C7_OutcomeFollowsTarget ==
    pc = "done" =>
        /\ Returned
        /\ result.response_body # <<>>
        /\ IF TargetKind = "file"
           THEN /\ result.status = "OK"
                /\ result.accept_ranges = "Bytes"
                /\ result.content_type =
                       (IF Sniff(fs[Target.path].data) # <<>>
                        THEN Sniff(fs[Target.path].data) ELSE TextPlain)
           ELSE IF TargetKind = "dir"
           THEN /\ result.status = "OK"
                /\ result.accept_ranges = "None"
                /\ result.content_type = TextHtml
           ELSE /\ result.status = "NotFound"
                /\ result.accept_ranges = "None"
                /\ result.content_type = TextHtml

\* C8: new never panics, whatever the escapes of the request path and the
\* names of the directory entries.
C8_NeverPanics == result.kind # "Panic"

Resolved == pc \notin {"idle", "resolve"}

\* C9, as amended: the resolver removes every leading `/` of the decoded path
\* and joins what is left, which starts with no `/`, onto the served root.
C9_AllLeadingSlashesRemoved ==
    Resolved =>
        \E k \in 0..Len(current_path) :
            /\ \A i \in 1..k : current_path[i] = 47
            /\ k < Len(current_path) => current_path[k + 1] # 47
            /\ new_path = RootCwd \o <<47>> \o SubSeq(current_path, k + 1, Len(current_path))

\* C9 witness: a decoded path that starts with two slashes was resolved.
C9_Witness == Resolved /\ StartsWith(current_path, <<47, 47>>)

\* C9, as claimed: the resolver removes exactly one leading `/`, so that a
\* path starting with several keeps all but the first in the joined segment.
C9_ExactlyOneSlashRemoved ==
    Resolved =>
        new_path = RootCwd \o <<47>>
                       \o (IF StartsWith(current_path, <<47>>) THEN Tail(current_path)
                           ELSE current_path)

\* C10: an Ok result with an empty response_body (NotFound, length 0) comes
\* only after another process removed an entry between canonicalize and the
\* exists test; with no removal every Ok result starts with the status line
\* and an absent target ends in Err.
C10_EmptyBodyOnlyByRace ==
    pc = "done" =>
        /\ result.kind = "Ok" /\ result.response_body = <<>> =>
               removedInWindow /\ result.status = "NotFound" /\ result.content_length = 0
        /\ removals = 0 /\ result.kind = "Ok" =>
               IsStatusLine(FirstLine(result.response_body), result.status)
        /\ removals = 0 /\ TargetKind = "absent" => result.kind = "Err"

\* C10 witness: the target was removed in that window and new returned Ok with
\* an empty buffer.
C10_Witness == Returned /\ result.response_body = <<>> /\ removedInWindow

=============================================================================
